---- MODULE Spec2Model ----
(***************************************************************************)
(* Memex imports: the chunked import-state queue (ImportStateManager), the *)
(* concurrency-bounded cancellable processing engine                       *)
(* (ImportProgressManager) and the commands that drive them.               *)
(*                                                                         *)
(* One JavaScript job (a command handler, or the continuation that runs    *)
(* when a storage request or a processor call completes, together with     *)
(* every promise reaction it triggers) is one action.  The suspension      *)
(* points are the browser.storage.local requests and the processor call.   *)
(***************************************************************************)
EXTENDS Integers, Sequences, FiniteSets, TLC

(***************************************************************************)
(* Bounds of the model.                                                    *)
(***************************************************************************)
ChunkSize == 3      \* largest initChunkSize given to the ImportStateManager constructor
MaxItems == 4       \* items queued before processing starts
MaxRuns == 2        \* start() invocations in one behaviour
MaxLimiters == 2    \* limiter objects created by the concurrency setter
MaxConc == 2        \* largest initial concurrency
MaxChunks == 3      \* main chunks the state-manager behaviours create
MaxAdd == 3         \* entries of one addItems / setItems input
MaxBegun == 3       \* state-manager calls begun in one storage-level behaviour
MaxCalls == 2       \* state-manager calls that wait for storage at once
Day == 3            \* clock ticks of 24 hours
MaxTicks == 4       \* ticks the clock advances
MaxCmds == 2        \* commands the UI sends over one connection

(***************************************************************************)
(* Program constants.                                                      *)
(***************************************************************************)
CONCURR_LIMIT == 5
STATE_STORAGE_KEY == "import-state-manager"
ERR_STATE_STORAGE_KEY == "import-err-state-manager"
STORAGE_PREFIX == "import-items-"
ERR_STORAGE_PREFIX == "err-import-items-"
UNDEFINED == "undefined"

ItemKeys == <<"a", "b", "c", "d", "e", "f">>

VARIABLES
    storage,             \* browser.storage.local: key -> stored value
    storageKeyStack,     \* ImportStateManager.storageKeyStack
    errStorageKeyStack,  \* ImportStateManager.errStorageKeyStack
    currErrChunk,        \* ImportStateManager.currErrChunk
    chunkSize,           \* ImportStateManager.chunkSize
    concurrency,         \* ImportProgressManager._concurrency
    tokenIndex,          \* ImportProgressManager._tokenIndex
    tokens,              \* ImportProgressManager.tokens (0 is a hole)
    processErrors,       \* importer.processErrors, set by SET_PROCESS_ERRS
    lims,                \* the limiter objects created so far; the last is runConcurrent
    runs,                \* the start() invocations
    ops,                 \* the processItem calls, in the order they were started
    calls,               \* the state manager's calls that wait for a storage operation
    inProgress,          \* the persisted import-in-progress flag
    port,                \* the commands the handler has posted to the UI, oldest first
    handlers,            \* the handler's async methods that wait for something
    hist                 \* what the last stop() found, for stating the properties

vars == <<storage, storageKeyStack, errStorageKeyStack, currErrChunk, chunkSize,
          concurrency, tokenIndex, tokens, processErrors, lims, runs, ops, calls,
          inProgress, port, handlers, hist>>

smVars == <<storage, storageKeyStack, errStorageKeyStack, currErrChunk, chunkSize, calls>>
pmVars == <<concurrency, tokenIndex, tokens, processErrors, lims, runs, ops>>
chVars == <<inProgress, port, handlers>>

Min(a, b) == IF a < b THEN a ELSE b
Range(s) == {s[i] : i \in DOMAIN s}

(***************************************************************************)
(* browser.storage.local                                                   *)
(***************************************************************************)
EmptyStorage == [k \in {} |-> <<>>]
\* storage.get({[k]: def})
Get(st, k, def) == IF k \in DOMAIN st THEN st[k] ELSE def
\* storage.set({[k]: v})
Put(st, k, v) == [x \in (DOMAIN st) \cup {k} |-> IF x = k THEN v ELSE st[x]]
\* storage.remove(K)
RemoveKeys(st, K) == [x \in (DOMAIN st) \ K |-> st[x]]

(***************************************************************************)
(* ImportStateManager.  A chunk is the sequence of its <<key, item>>       *)
(* entries in insertion order; sm is the record of the manager's fields    *)
(* and the storage it writes.                                              *)
(***************************************************************************)
ChunkKeysOf(chunk) == {chunk[i][1] : i \in DOMAIN chunk}

getNextChunkKey(ks) == STORAGE_PREFIX \o ToString(Len(ks))
getNextErrChunkKey(eks) == ERR_STORAGE_PREFIX \o ToString(Len(eks))

\* pairs.slice(i, j), 0-based and end-exclusive
slice(pairs, i, j) == SubSeq(pairs, i + 1, Min(j, Len(pairs)))

\* the loop of splitChunks from position i on
\* a loop that runs while i <= pairs.length
RECURSIVE splitChunksInclusive(_, _, _)
splitChunksInclusive(pairs, i, size) ==
    IF i > Len(pairs) THEN <<>>
    ELSE <<slice(pairs, i, i + size)>> \o splitChunksInclusive(pairs, i + size, size)

RECURSIVE splitChunksFrom(_, _, _)
splitChunksFrom(pairs, i, size) ==
    IF i >= Len(pairs) THEN <<>>
    ELSE <<slice(pairs, i, i + size)>> \o splitChunksFrom(pairs, i + size, size)

splitChunks(map, size) == splitChunksFrom(map, 0, size)

addChunk(sm, chunk) ==
    LET chunkKey == getNextChunkKey(sm.ks)
        oldKeyState == Get(sm.st, STATE_STORAGE_KEY, <<>>)
    IN [sm EXCEPT !.ks = Append(sm.ks, chunkKey),
                  !.st = Put(Put(sm.st, chunkKey, chunk), STATE_STORAGE_KEY,
                             Append(oldKeyState, chunkKey))]

RECURSIVE addChunks(_, _)
addChunks(sm, chunks) ==
    IF chunks = <<>> THEN sm ELSE addChunks(addChunk(sm, Head(chunks)), Tail(chunks))

addItems(sm, itemsMap) ==
    IF Len(itemsMap) = 0 THEN sm ELSE addChunks(sm, splitChunks(itemsMap, sm.cs))

\* a clearItems that leaves the persisted key-stack record in storage
clearItemsKeepsRecord(sm) ==
    [sm EXCEPT !.st = RemoveKeys(sm.st, Range(sm.ks)), !.ks = <<>>]

\* a clearItems that pops and removes one chunk per call
clearItemsPopsOne(sm) ==
    IF sm.ks = <<>> THEN [sm EXCEPT !.st = RemoveKeys(sm.st, {STATE_STORAGE_KEY})]
    ELSE [sm EXCEPT !.st = RemoveKeys(sm.st, {sm.ks[Len(sm.ks)], STATE_STORAGE_KEY}),
                    !.ks = SubSeq(sm.ks, 1, Len(sm.ks) - 1)]

\* the keys clearItems hands to storage.remove
clearKeys(ks) == Append(ks, STATE_STORAGE_KEY)

clearItems(sm) ==
    [sm EXCEPT !.st = RemoveKeys(sm.st, Range(sm.ks) \cup {STATE_STORAGE_KEY}),
               !.ks = <<>>]

setItems(sm, itemsMap) == addItems(clearItems(sm), itemsMap)

\* a removeItem that writes the chunk back as it read it
remainingChunkKeepsItem(chunk, itemKey) == chunk

\* const { [itemKey]: itemToRemove, ...remainingChunk } = chunk
remainingChunk(chunk, itemKey) == SelectSeq(chunk, LAMBDA e : e[1] # itemKey)
itemToRemove(chunk, itemKey) ==
    IF itemKey \in ChunkKeysOf(chunk)
    THEN (CHOOSE e \in Range(chunk) : e[1] = itemKey)[2]
    ELSE UNDEFINED

\* a removeItem that drops a chunk it has emptied, record and stack entry
removeItemDropsEmpty(sm, chunkKey, itemKey) ==
    LET rest == remainingChunk(Get(sm.st, chunkKey, <<>>), itemKey)
    IN IF rest = <<>>
       THEN [sm EXCEPT !.st = RemoveKeys(sm.st, {chunkKey}),
                       !.ks = SelectSeq(sm.ks, LAMBDA k : k # chunkKey)]
       ELSE [sm EXCEPT !.st = Put(sm.st, chunkKey, rest)]

removeItem(sm, chunkKey, itemKey) ==
    [sm EXCEPT !.st = Put(sm.st, chunkKey,
                          remainingChunk(Get(sm.st, chunkKey, <<>>), itemKey))]

checkErrExists(sm, key) ==
    \E i \in DOMAIN sm.eks :
        sm.eks[i] \in DOMAIN sm.st /\ key \in ChunkKeysOf(sm.st[sm.eks[i]])

\* existingChunk[itemKey] = item
setEntry(chunk, itemKey, item) ==
    IF itemKey \in ChunkKeysOf(chunk)
    THEN [i \in DOMAIN chunk |-> IF chunk[i][1] = itemKey THEN <<itemKey, item>> ELSE chunk[i]]
    ELSE Append(chunk, <<itemKey, item>>)

flagAsError(sm, chunkKey, itemKey) ==
    LET item == itemToRemove(Get(sm.st, chunkKey, <<>>), itemKey)
        sm1 == removeItem(sm, chunkKey, itemKey)
    IN IF ~checkErrExists(sm1, itemKey) THEN sm1
       ELSE LET eks1 == IF Len(sm1.eks) = 0
                        THEN <<ERR_STORAGE_PREFIX \o "0">>
                        ELSE sm1.eks
                key1 == eks1[Len(eks1)]
                existing == Get(sm1.st, key1, <<>>)
                full == Len(existing) >= sm1.cs
                eks2 == IF full THEN Append(eks1, getNextErrChunkKey(eks1)) ELSE eks1
                key2 == eks2[Len(eks2)]
                chunk2 == setEntry(IF full THEN <<>> ELSE existing, itemKey, item)
            IN [sm1 EXCEPT !.eks = eks2,
                           !.st = Put(Put(sm1.st, key2, chunk2),
                                      ERR_STATE_STORAGE_KEY, eks2)]

\* getChunk: storage.get(chunkKey) has no default, a missing record reads as
\* undefined
getChunk(st, chunkKey) == [chunk |-> Get(st, chunkKey, UNDEFINED), chunkKey |-> chunkKey]

\* getErrItems, consumed to its end
getErrItems(sm) == [i \in DOMAIN sm.eks |-> getChunk(sm.st, sm.eks[i])]

\* a getItems that walks the indices of the key stack (for ... in) and uses
\* them as chunk keys
getItemsByIndex(sm, includeErrs) ==
    [i \in DOMAIN sm.ks |-> getChunk(sm.st, ToString(i - 1))]

\* a getItems that pops the key stack
getItemsPopping(sm, includeErrs) ==
    [i \in DOMAIN sm.ks |-> getChunk(sm.st, sm.ks[Len(sm.ks) - i + 1])]
        \o (IF includeErrs THEN getErrItems(sm) ELSE <<>>)

\* getItems(includeErrs), consumed to its end: the pairs it yields
getItems(sm, includeErrs) ==
    [i \in DOMAIN sm.ks |-> getChunk(sm.st, sm.ks[i])]
        \o (IF includeErrs THEN getErrItems(sm) ELSE <<>>)

\* the loop of diffAgainstState over the chunks getItems() yields; keys() of a
\* missing chunk is empty
RECURSIVE diffFrom(_, _)
diffFrom(entries, pairs) ==
    IF pairs = <<>> THEN entries
    ELSE LET currChunkKeys == IF Head(pairs).chunk = UNDEFINED THEN {}
                              ELSE ChunkKeysOf(Head(pairs).chunk)
         IN diffFrom(SelectSeq(entries, LAMBDA e : e[1] \notin currChunkKeys), Tail(pairs))

\* a diffAgainstState that filters the input map anew for each chunk
diffAgainstStateLastChunk(sm, inputMap) ==
    IF sm.ks = <<>> THEN inputMap
    ELSE diffFrom(inputMap, <<getChunk(sm.st, sm.ks[Len(sm.ks)])>>)

diffAgainstState(sm, inputMap) == diffFrom(inputMap, getItems(sm, FALSE))

\* how the promise of rehydrateState settles: the catch block takes the
\* failure of the storage read, nothing is thrown after it
rehydrateOutcome(readOk) == "resolved"

\* a rehydrateState that assigns the stacks in its try block only
rehydrateStateNoFinally(sm, readOk) ==
    IF readOk
    THEN [sm EXCEPT !.ks = Get(sm.st, STATE_STORAGE_KEY, <<>>),
                    !.eks = Get(sm.st, ERR_STATE_STORAGE_KEY, <<>>),
                    !.cur = Len(Get(sm.st, ERR_STATE_STORAGE_KEY, <<>>)) - 1]
    ELSE sm

\* rehydrateState: the stacks are read with [] as default; readOk is whether
\* the storage read resolved
rehydrateState(sm, readOk) ==
    LET initState == IF readOk THEN Get(sm.st, STATE_STORAGE_KEY, <<>>) ELSE <<>>
        initErrState == IF readOk THEN Get(sm.st, ERR_STATE_STORAGE_KEY, <<>>) ELSE <<>>
    IN [sm EXCEPT !.ks = initState, !.eks = initErrState, !.cur = Len(initErrState) - 1]

SM == [st |-> storage, ks |-> storageKeyStack, eks |-> errStorageKeyStack,
       cur |-> currErrChunk, cs |-> chunkSize]

SetSM(sm) ==
    /\ storage' = sm.st
    /\ storageKeyStack' = sm.ks
    /\ errStorageKeyStack' = sm.eks
    /\ currErrChunk' = sm.cur
    /\ chunkSize' = sm.cs

\* a new manager on empty storage, after rehydrateState
FreshSM(size) == [st |-> EmptyStorage, ks |-> <<>>, eks |-> <<>>, cur |-> -1, cs |-> size]

(***************************************************************************)
(* promise-limit, as used through this.runConcurrent: a limiter holds its  *)
(* count, the number of outstanding jobs and its FIFO queue.  A job is one *)
(* entry of one runConcurrent.map call; the map is named by the start()    *)
(* invocation and the position of its chunk in the key stack.              *)
(***************************************************************************)
Limiter(n) == [count |-> n, outstanding |-> 0, jobs |-> <<>>]

Job(r, i, chunkKey, entry) ==
    [run |-> r, idx |-> i, chunkKey |-> chunkKey, key |-> entry[1], type |-> entry[2]]

NewOp(job, l) ==
    [run |-> job.run, idx |-> job.idx, chunkKey |-> job.chunkKey, key |-> job.key,
     type |-> job.type, lim |-> l, phase |-> "proc", res |-> "none", reports |-> 0,
     error |-> FALSE, removes |-> 0, flags |-> 0, routed |-> FALSE, buf |-> <<>>]

(***************************************************************************)
(* ImportProgressManager.  pm is the record of the manager's fields, the   *)
(* limiters and the processItem calls.                                     *)
(***************************************************************************)
PM == [conc |-> concurrency, tokenIndex |-> tokenIndex, tokens |-> tokens,
       lims |-> lims, ops |-> ops]

SetPM(pm) ==
    /\ concurrency' = pm.conc
    /\ tokenIndex' = pm.tokenIndex
    /\ tokens' = pm.tokens
    /\ lims' = pm.lims
    /\ ops' = pm.ops

\* a setter without the upper limit
setConcurrencyNoLimit(pm, value) ==
    IF value > 0
    THEN [pm EXCEPT !.conc = value, !.lims = Append(pm.lims, Limiter(value))]
    ELSE pm

\* set concurrency(value)
setConcurrency(pm, value) ==
    IF value > 0 /\ value <= CONCURR_LIMIT
    THEN [pm EXCEPT !.conc = value, !.lims = Append(pm.lims, Limiter(value))]
    ELSE pm

nextTokenIndex(ti, conc) == IF ti = conc - 1 THEN 0 ELSE ti + 1

\* this.tokens[i] = token, on a JavaScript array (0-based, grows with holes)
setToken(toks, i, o) ==
    [j \in 1..(IF i + 1 > Len(toks) THEN i + 1 ELSE Len(toks)) |->
        IF j = i + 1 THEN o ELSE IF j <= Len(toks) THEN toks[j] ELSE 0]

bindNextCancellableToken(pm, o) ==
    LET i == nextTokenIndex(pm.tokenIndex, pm.conc)
    IN [pm EXCEPT !.tokenIndex = i, !.tokens = setToken(pm.tokens, i, o)]

\* the mapper call: processItem(chunkKey)(entry) up to its await, where
\* makeCancellable binds the token and starts the processor
startOp(pm, l, job) ==
    LET o == Len(pm.ops) + 1
    IN bindNextCancellableToken([pm EXCEPT !.ops = Append(pm.ops, NewOp(job, l))], o)

\* the map's `failed` flag, read when a queued job is taken up
mapFailed(rs, job) == job.idx \in rs[job.run].failed

RECURSIVE remove(_, _, _)
RECURSIVE dequeue(_, _, _)
\* promise-limit remove(): a job has settled
remove(pm, l, rs) ==
    LET pm1 == [pm EXCEPT !.lims[l].outstanding = @ - 1]
    IN IF pm1.lims[l].outstanding < pm1.lims[l].count THEN dequeue(pm1, l, rs) ELSE pm1

\* dequeue() taking the job queued last
dequeueLast(pm, l, rs) ==
    IF pm.lims[l].jobs = <<>> THEN pm
    ELSE LET n == Len(pm.lims[l].jobs)
             job == pm.lims[l].jobs[n]
             pm1 == [pm EXCEPT !.lims[l].jobs = SubSeq(@, 1, n - 1),
                               !.lims[l].outstanding = @ + 1]
         IN IF mapFailed(rs, job) THEN remove(pm1, l, rs) ELSE startOp(pm1, l, job)

\* promise-limit dequeue(): run(job.fn); a job of a failed map calls no mapper
\* and settles at once
dequeue(pm, l, rs) ==
    IF pm.lims[l].jobs = <<>> THEN pm
    ELSE LET job == Head(pm.lims[l].jobs)
             pm1 == [pm EXCEPT !.lims[l].jobs = Tail(@), !.lims[l].outstanding = @ + 1]
         IN IF mapFailed(rs, job) THEN remove(pm1, l, rs) ELSE startOp(pm1, l, job)

\* promise-limit semaphore(fn): queue(fn) or run(fn)
limit(pm, l, job) ==
    IF pm.lims[l].outstanding >= pm.lims[l].count
    THEN [pm EXCEPT !.lims[l].jobs = Append(@, job)]
    ELSE startOp([pm EXCEPT !.lims[l].outstanding = @ + 1], l, job)

RECURSIVE mapEntries(_, _, _)
\* this.runConcurrent.map(importItemEntries, processEntry)
mapEntries(pm, l, jobs) ==
    IF jobs = <<>> THEN pm ELSE mapEntries(limit(pm, l, Head(jobs)), l, Tail(jobs))

(***************************************************************************)
(* start(): one record per invocation.  phase is "read" while the          *)
(* getChunk of position idx is awaited, "map" while runConcurrent.map is   *)
(* awaited, "cancelled" after the break, "done" after the loop.  left      *)
(* counts the jobs of the awaited map that have not resolved; failed holds *)
(* the positions whose map has its `failed` flag set; cancelledAt is the   *)
(* number of processItem calls made when the invocation first saw a        *)
(* cancellation (-1 before).                                               *)
(***************************************************************************)
NewRun(ks) ==
    [phase |-> IF Len(ks) = 0 THEN "done" ELSE "read",
     idx |-> IF Len(ks) = 0 THEN 0 ELSE 1,
     left |-> 0, failed |-> {}, cancelledAt |-> -1]

\* the for-await loop asks getItems() for the next chunk
nextChunk(run, ks) ==
    IF run.idx + 1 <= Len(ks)
    THEN [run EXCEPT !.phase = "read", !.idx = @ + 1, !.left = 0]
    ELSE [run EXCEPT !.phase = "done", !.left = 0]

\* start() without the break on a cancellation
startCatchNoBreak(run, cancelled, ks) == nextChunk(run, ks)

\* catch (err) { if (err.cancelled) break; console.error(err) }
startCatch(run, cancelled, ks) ==
    IF cancelled THEN [run EXCEPT !.phase = "cancelled", !.left = 0] ELSE nextChunk(run, ks)

\* whether the run is still awaiting the map this call belongs to
awaited(run, op) == run.phase = "map" /\ run.idx = op.idx /\ op.idx \notin run.failed

\* a mapper promise rejects: the map's catch sets `failed`, Promise.all rejects
mapReject(rs, op, cancelled, ks, n) ==
    LET run == rs[op.run]
        run1 == [run EXCEPT !.failed = @ \cup {op.idx},
                            !.cancelledAt = IF cancelled /\ @ < 0 THEN n ELSE @]
    IN [rs EXCEPT ![op.run] = IF awaited(run, op) THEN startCatch(run1, cancelled, ks)
                              ELSE run1]

\* a map that resolves with the first mapper promise that resolves
mapResolveFirst(rs, op, ks) ==
    LET run == rs[op.run]
    IN IF ~awaited(run, op) THEN rs ELSE [rs EXCEPT ![op.run] = nextChunk(run, ks)]

\* a mapper promise resolves: Promise.all resolves with the last one
mapResolve(rs, op, ks) ==
    LET run == rs[op.run]
    IN IF ~awaited(run, op) THEN rs
       ELSE [rs EXCEPT ![op.run] = IF run.left = 1 THEN nextChunk(run, ks)
                                   ELSE [run EXCEPT !.left = @ - 1]]

\* processItem without the `if (!cancelled)` guard of its finally block
processItemReportsCancel(op, res) ==
    [op EXCEPT !.phase = IF res = "cancelled" THEN "cancelled" ELSE "rmRead",
               !.res = IF res = "cancelled" THEN @ ELSE res,
               !.reports = @ + 1, !.error = (res \notin {"ok", "cancelled"}),
               !.removes = @ + 1]

\* processItem after the processor call settled with res ("ok", "err",
\* "timeout") or was rejected by stop() ("cancelled"): the catch and the
\* finally block, up to the storage read of removeItem
processItemOutcome(op, res) ==
    IF res = "cancelled"
    THEN [op EXCEPT !.phase = "cancelled"]
    ELSE [op EXCEPT !.phase = "rmRead", !.res = res, !.reports = @ + 1,
                    !.error = (res # "ok"), !.removes = @ + 1]

\* processItem returns: its locals (status, error, remainingChunk) are gone
returned(op) ==
    [op EXCEPT !.phase = "done", !.res = "none", !.error = FALSE, !.routed = FALSE,
               !.buf = <<>>, !.lim = 0]

\* a rejected processItem call holds no limiter slot any more
released(op) == [op EXCEPT !.lim = 0]

rejected(op) == op.phase \in {"cancelled", "threw"}

\* stop(): the tokens in pop order whose promise is still pending
cancelOrder(toks, os) ==
    SelectSeq([i \in 1..Len(toks) |-> toks[Len(toks) - i + 1]],
              LAMBDA o : o # 0 /\ os[o].phase = "proc")

RECURSIVE rejectAll(_, _, _, _, _)
rejectAll(rs, os, order, ks, n) ==
    IF order = <<>> THEN rs
    ELSE LET op == os[Head(order)]
         IN rejectAll(IF rejected(op) THEN mapReject(rs, op, op.phase = "cancelled", ks, n)
                      ELSE rs,
                      os, Tail(order), ks, n)

RECURSIVE removeAll(_, _, _)
removeAll(pm, order, rs) ==
    IF order = <<>> THEN pm
    ELSE LET op == pm.ops[Head(order)]
         IN removeAll(IF rejected(op) THEN remove(pm, op.lim, rs) ELSE pm, Tail(order), rs)

stop(pm, rs, ks) ==
    LET order == cancelOrder(pm.tokens, pm.ops)
        ops1 == [o \in DOMAIN pm.ops |->
                    IF o \in Range(order) THEN processItemOutcome(pm.ops[o], "cancelled")
                    ELSE pm.ops[o]]
        rs1 == rejectAll(rs, ops1, order, ks, Len(pm.ops))
        pm1 == removeAll([pm EXCEPT !.tokens = <<>>, !.ops = ops1], order, rs1)
    IN [pm |-> [pm1 EXCEPT !.ops = [o \in DOMAIN pm1.ops |->
                                       IF rejected(pm1.ops[o]) THEN released(pm1.ops[o])
                                       ELSE pm1.ops[o]]],
        rs |-> rs1]

(***************************************************************************)
(* The processing engine over a queue that START has populated.            *)
(***************************************************************************)
ConcInputs == {0, 1, 2, CONCURR_LIMIT + 1}

\* fetchDOMFromUrl: how the request ends, by the status at readyState 4.  A
\* timeout shows up as status 0 and rejects with an ordinary Error, as every
\* other status than 200 does; none of them carries the `cancelled` property.
FetchStatuses == {0, 200, 404}
fetchDOMFromUrl(status) ==
    IF status = 0 THEN "timeout" ELSE IF status = 200 THEN "ok" ELSE "err"

\* how the processor call of an item can settle
Results == {fetchDOMFromUrl(status) : status \in FetchStatuses}

InitItems(n) == [i \in 1..n |-> <<ItemKeys[i], IF i % 2 = 1 THEN "h" ELSE "b">>]

Pending(os) == {o \in DOMAIN os : os[o].phase = "proc"}

\* the item keys of the main chunks
QueuedKeys(st, ks) ==
    UNION {ChunkKeysOf(st[ks[i]]) : i \in {j \in DOMAIN ks : ks[j] \in DOMAIN st}}

InitWith(N, C) ==
    \E n \in N, c \in C :
        LET sm == addItems(FreshSM(ChunkSize), InitItems(n))
        IN /\ storage = sm.st
           /\ storageKeyStack = sm.ks
           /\ errStorageKeyStack = sm.eks
           /\ currErrChunk = sm.cur
           /\ chunkSize = sm.cs
           /\ concurrency = c
           /\ tokenIndex = 0
           /\ tokens = <<>>
           /\ processErrors = FALSE
           /\ lims = <<Limiter(c)>>
           /\ runs = <<>>
           /\ ops = <<>>
           /\ calls = <<>>
           /\ hist = [epoch |-> "init", pend |-> {}, rest |-> {}, run |-> 0]
           /\ inProgress = FALSE /\ port = <<>> /\ handlers = <<>>

Init == InitWith(1..MaxItems, 1..MaxConc)

\* START / RESUME: importer.start(), up to the first getChunk
Start ==
    /\ Len(runs) < MaxRuns
    /\ runs' = Append(runs, NewRun(storageKeyStack))
    /\ hist' = [hist EXCEPT
                    !.epoch = IF hist.epoch = "stopped" THEN "resumed" ELSE @,
                    !.run = IF hist.epoch = "stopped" THEN Len(runs) + 1 ELSE @]
    /\ UNCHANGED <<smVars, concurrency, tokenIndex, tokens, processErrors, lims, ops>>
    /\ UNCHANGED chVars

\* the getChunk read of a start() invocation completes: the chunk's entries
\* go through runConcurrent.map
ReadChunk(r) ==
    /\ runs[r].phase = "read"
    /\ runs[r].idx <= Len(storageKeyStack)
    /\ LET chunkKey == storageKeyStack[runs[r].idx]
       IN IF chunkKey \notin DOMAIN storage
          THEN /\ runs' = [runs EXCEPT ![r] = startCatch(@, FALSE, storageKeyStack)]
               /\ UNCHANGED <<concurrency, tokenIndex, tokens, lims, ops>>
          ELSE LET chunk == storage[chunkKey]
                   jobs == [i \in DOMAIN chunk |-> Job(r, runs[r].idx, chunkKey, chunk[i])]
                   run1 == [runs[r] EXCEPT !.phase = "map", !.left = Len(chunk)]
               IN /\ runs' = [runs EXCEPT ![r] = IF Len(chunk) = 0
                                                 THEN nextChunk(run1, storageKeyStack)
                                                 ELSE run1]
                  /\ SetPM(mapEntries(PM, Len(lims), jobs))
    /\ hist' = hist
    /\ UNCHANGED <<smVars, processErrors>>
    /\ UNCHANGED chVars

\* the processor call of a processItem settles
ProcSettle(o, res) ==
    /\ ops[o].phase = "proc"
    /\ LET op1 == [processItemOutcome(ops[o], res) EXCEPT !.routed = processErrors]
           pm1 == [PM EXCEPT !.ops[o] = op1]
       IN IF rejected(op1)
          THEN LET rs == mapReject(runs, op1, op1.phase = "cancelled", storageKeyStack,
                                   Len(ops))
                   pm2 == remove(pm1, op1.lim, rs)
               IN runs' = rs /\ SetPM([pm2 EXCEPT !.ops[o] = released(@)])
          ELSE runs' = runs /\ SetPM(pm1)
    /\ hist' = hist
    /\ UNCHANGED <<smVars, processErrors>>
    /\ UNCHANGED chVars

\* removeItem: the storage read completes
RemoveRead(o) ==
    /\ ops[o].phase = "rmRead"
    /\ ops' = [ops EXCEPT ![o].phase = "rmWrite",
                          ![o].buf = remainingChunk(Get(storage, ops[o].chunkKey, <<>>),
                                                    ops[o].key)]
    /\ hist' = hist
    /\ UNCHANGED <<smVars, concurrency, tokenIndex, tokens, processErrors, lims, runs>>
    /\ UNCHANGED chVars

\* removeItem: the storage write completes, processItem resolves
RemoveWrite(o) ==
    /\ ops[o].phase = "rmWrite"
    /\ storage' = Put(storage, ops[o].chunkKey, ops[o].buf)
    /\ LET pm1 == [PM EXCEPT !.ops[o] = returned(@)]
           rs == mapResolve(runs, ops[o], storageKeyStack)
       IN runs' = rs /\ SetPM(remove(pm1, ops[o].lim, rs))
    /\ hist' = hist
    /\ UNCHANGED <<storageKeyStack, errStorageKeyStack, currErrChunk, chunkSize, calls,
                   processErrors>>
    /\ UNCHANGED chVars

\* PAUSE, or the port disconnects: importer.stop()
Stop ==
    /\ LET s == stop(PM, runs, storageKeyStack)
       IN runs' = s.rs /\ SetPM(s.pm)
    /\ hist' = IF Pending(ops) = {} THEN hist
               ELSE [epoch |-> "stopped", pend |-> Pending(ops),
                     rest |-> QueuedKeys(storage, storageKeyStack)
                                  \ {ops[o].key : o \in DOMAIN ops},
                     run |-> 0]
    /\ UNCHANGED <<smVars, processErrors>>
    /\ UNCHANGED chVars

\* SET_CONCURRENCY
SetConcurrency(n) ==
    /\ (n > 0 /\ n <= CONCURR_LIMIT) => Len(lims) < MaxLimiters
    /\ SetPM(setConcurrency(PM, n))
    /\ hist' = hist
    /\ UNCHANGED <<smVars, processErrors, runs>>
    /\ UNCHANGED chVars

\* SET_PROCESS_ERRS
SetProcessErrs(b) ==
    /\ processErrors' = b
    /\ hist' = hist
    /\ UNCHANGED <<smVars, concurrency, tokenIndex, tokens, lims, runs, ops>>
    /\ UNCHANGED chVars

Next ==
    \/ Start
    \/ \E r \in DOMAIN runs : ReadChunk(r)
    \/ \E o \in DOMAIN ops, res \in Results : ProcSettle(o, res)
    \/ \E o \in DOMAIN ops : RemoveRead(o)
    \/ \E o \in DOMAIN ops : RemoveWrite(o)
    \/ Stop

Spec == Init /\ [][Next]_vars

(***************************************************************************)
(* One start() that is never stopped.  Every storage operation completes   *)
(* and every processor call settles: the steps of the engine are weakly    *)
(* fair.  hist.rest holds the items that were queued when start() began.   *)
(***************************************************************************)
StartOnce ==
    /\ runs = <<>>
    /\ runs' = Append(runs, NewRun(storageKeyStack))
    /\ hist' = [hist EXCEPT !.epoch = "started",
                            !.rest = QueuedKeys(storage, storageKeyStack)]
    /\ UNCHANGED <<smVars, concurrency, tokenIndex, tokens, processErrors, lims, ops>>
    /\ UNCHANGED chVars

NextLive ==
    \/ StartOnce
    \/ \E r \in DOMAIN runs : ReadChunk(r)
    \/ \E o \in DOMAIN ops, res \in Results : ProcSettle(o, res)
    \/ \E o \in DOMAIN ops : RemoveRead(o)
    \/ \E o \in DOMAIN ops : RemoveWrite(o)

SpecLive == Init /\ [][NextLive]_vars /\ WF_vars(NextLive)

(***************************************************************************)
(* The engine with SET_CONCURRENCY arriving at any moment.                 *)
(***************************************************************************)
InitConc == InitWith(1..MaxConc, 1..MaxConc)

NextConc ==
    \/ Next
    \/ \E n \in ConcInputs : SetConcurrency(n)

SpecConc == InitConc /\ [][NextConc]_vars

(***************************************************************************)
(* The engine with SET_PROCESS_ERRS arriving at any moment.                *)
(***************************************************************************)
NextErrs ==
    \/ Next
    \/ \E b \in BOOLEAN : SetProcessErrs(b)

SpecErrs == InitConc /\ [][NextErrs]_vars

(***************************************************************************)
(* The ImportStateManager alone, driven call by call: every call runs to   *)
(* completion before the next one starts.  hist records the last call and  *)
(* its argument.                                                           *)
(***************************************************************************)
\* the Maps passed to addItems / setItems: the empty Map and the Maps whose
\* entries are, in iteration order, a run of at most MaxAdd consecutive item
\* keys, ascending or descending
ItemRun(i, j) ==
    [k \in 1..(j - i + 1) |->
        <<ItemKeys[i + k - 1], IF (i + k - 1) % 2 = 1 THEN "h" ELSE "b">>]
Reverse(s) == [k \in 1..Len(s) |-> s[Len(s) - k + 1]]
ItemMaps ==
    LET runs1 == {ItemRun(i, j) : i, j \in 1..MaxAdd}
    IN runs1 \cup {Reverse(s) : s \in runs1}

Called(name, arg) == hist' = [call |-> name, arg |-> arg]

InitSM ==
    /\ \E size \in 1..ChunkSize :
           /\ storage = FreshSM(size).st
           /\ storageKeyStack = FreshSM(size).ks
           /\ errStorageKeyStack = FreshSM(size).eks
           /\ currErrChunk = FreshSM(size).cur
           /\ chunkSize = FreshSM(size).cs
    /\ concurrency = 1
    /\ tokenIndex = 0
    /\ tokens = <<>>
    /\ processErrors = FALSE
    /\ lims = <<Limiter(1)>>
    /\ runs = <<>>
    /\ ops = <<>>
    /\ calls = <<>>
    /\ hist = [call |-> "init", arg |-> <<>>]
    /\ inProgress = FALSE /\ port = <<>> /\ handlers = <<>>

AddItems(itemsMap) ==
    /\ Len(addItems(SM, itemsMap).ks) <= MaxChunks
    /\ SetSM(addItems(SM, itemsMap))
    /\ Called("addItems", itemsMap)
    /\ UNCHANGED <<pmVars, calls>>
    /\ UNCHANGED chVars

SetItems(itemsMap) ==
    /\ Len(setItems(SM, itemsMap).ks) <= MaxChunks
    /\ SetSM(setItems(SM, itemsMap))
    /\ Called("setItems", itemsMap)
    /\ UNCHANGED <<pmVars, calls>>
    /\ UNCHANGED chVars

RemoveItem(chunkKey, itemKey) ==
    /\ SetSM(removeItem(SM, chunkKey, itemKey))
    /\ hist' = [call |-> "removeItem", arg |-> <<chunkKey, itemKey>>,
                ret |-> itemToRemove(Get(storage, chunkKey, <<>>), itemKey)]
    /\ UNCHANGED <<pmVars, calls>>
    /\ UNCHANGED chVars

FlagAsError(chunkKey, itemKey) ==
    /\ SetSM(flagAsError(SM, chunkKey, itemKey))
    /\ Called("flagAsError", <<chunkKey, itemKey>>)
    /\ UNCHANGED <<pmVars, calls>>
    /\ UNCHANGED chVars

ClearItems ==
    /\ SetSM(clearItems(SM))
    /\ hist' = [call |-> "clearItems", arg |-> <<>>,
                removed |-> clearKeys(storageKeyStack),
                again |-> IF hist.call = "clearItems" THEN Len(hist.removed) ELSE 0]
    /\ UNCHANGED <<pmVars, calls>>
    /\ UNCHANGED chVars

DiffAgainstState(inputMap) ==
    /\ hist' = [call |-> "diffAgainstState", arg |-> inputMap,
                ret |-> diffAgainstState(SM, inputMap)]
    /\ UNCHANGED <<smVars, pmVars>>
    /\ UNCHANGED chVars

\* a consumer takes every pair of getItems(includeErrs)
GetItems(includeErrs) ==
    /\ hist' = [call |-> "getItems", arg |-> includeErrs, ret |-> getItems(SM, includeErrs)]
    /\ UNCHANGED <<smVars, pmVars>>
    /\ UNCHANGED chVars

NextSM ==
    \/ \E itemsMap \in ItemMaps : AddItems(itemsMap)
    \/ \E itemsMap \in ItemMaps : SetItems(itemsMap)
    \/ \E chunkKey \in Range(storageKeyStack), itemKey \in QueuedKeys(storage, storageKeyStack) :
           RemoveItem(chunkKey, itemKey)
    \/ \E chunkKey \in Range(storageKeyStack), itemKey \in QueuedKeys(storage, storageKeyStack) :
           FlagAsError(chunkKey, itemKey)
    \/ ClearItems
    \/ \E includeErrs \in BOOLEAN : GetItems(includeErrs)
    \/ \E inputMap \in ItemMaps : DiffAgainstState(inputMap)

SpecSM == InitSM /\ [][NextSM]_vars

(***************************************************************************)
(* ImportConnectionHandler over one port connection.  A command runs its   *)
(* handler up to the handler's first await; a record of `handlers` is an   *)
(* async method that waits: at "flag" for getImportInProgressFlag, at      *)
(* "prepare" for the enumerator and the addItems call of its next group,   *)
(* at "clear" for the storage.remove of clearItems, at "estimates" for     *)
(* getEstimateCounts.  The message listener takes the next command while   *)
(* earlier handlers wait.  hist holds the commands received, whether a     *)
(* cancelImport has completed since the last of them, and the number of    *)
(* processItem calls made when the last CANCEL was received.               *)
(***************************************************************************)
\* createImportItems(): the bookmarks group is yielded before the history group
Enumerated ==
    << [type |-> "b", data |-> << <<"a", "b">> >>],
       [type |-> "h", data |-> << <<"a", "h">>, <<"b", "h">> >>] >>

\* the allowTypes payloads of START
AllowTypes == {{"b", "h"}, {"h"}}

\* differMaps(bookmarkItems)(data): the entries of data whose key is not a
\* key of bookmarkItems
differMaps(bookmarkItems, data) ==
    SelectSeq(data, LAMBDA e : e[1] \notin ChunkKeysOf(bookmarkItems))

\* the data prepareImportItems hands to addItems for the group at position
\* pos, bookmarkItems being the bookmarks group seen before
preparedData(pos, bookmarkItems) ==
    IF Enumerated[pos].type = "h"
    THEN differMaps(bookmarkItems, Enumerated[pos].data)
    ELSE Enumerated[pos].data

NewHandler(name, at) ==
    [name |-> name, at |-> at, allowTypes |-> {}, pos |-> 1, bookmarkItems |-> <<>>,
     keys |-> <<>>]

\* the handlers still waiting once handler i has reached `at` ("done": returned)
Awaiting(i, h) ==
    IF h.at = "done"
    THEN SubSeq(handlers, 1, i - 1) \o SubSeq(handlers, i + 1, Len(handlers))
    ELSE [handlers EXCEPT ![i] = h]

Received(cmd) ==
    hist' = [hist EXCEPT !.cmds = Append(@, cmd), !.cancelled = FALSE]

CanReceive == Len(hist.cmds) < MaxCmds

\* start() invocations made and still to be made by the waiting startImport calls
StartsDue ==
    Len(runs) + Cardinality({i \in DOMAIN handlers : handlers[i].name = "startImport"})

InitConn ==
    /\ \E c \in 1..MaxConc, n \in 0..2 :
          LET sm == addItems(FreshSM(2), InitItems(n))
          IN /\ storage = sm.st
             /\ storageKeyStack = sm.ks
             /\ errStorageKeyStack = sm.eks
             /\ currErrChunk = sm.cur
             /\ chunkSize = sm.cs
             /\ concurrency = c
             /\ lims = <<Limiter(c)>>
             /\ inProgress = (n > 0)
    /\ tokenIndex = 0
    /\ tokens = <<>>
    /\ processErrors = FALSE
    /\ runs = <<>>
    /\ ops = <<>>
    /\ calls = <<>>
    /\ port = <<>>
    /\ handlers = <<NewHandler("attemptRehydrate", "flag")>>
    /\ hist = [cmds |-> <<>>, cancelled |-> FALSE, started |-> 0]

\* the tail of startImport: the START event, the flag, importer.start()
startImportTail ==
    /\ port' = Append(port, "START")
    /\ inProgress' = TRUE
    /\ runs' = Append(runs, NewRun(storageKeyStack))

\* the view attemptRehydrate puts the UI in
attemptRehydrateViewInverted(importInProgress) ==
    IF importInProgress THEN "INIT" ELSE "PAUSE"

attemptRehydrateView(importInProgress) ==
    IF importInProgress THEN "PAUSE" ELSE "INIT"

\* getImportInProgressFlag() resolves for attemptRehydrate
AttemptRehydrateFlag(i) ==
    /\ handlers[i].name = "attemptRehydrate" /\ handlers[i].at = "flag"
    /\ IF attemptRehydrateView(inProgress) = "PAUSE"
       THEN /\ port' = Append(port, "PAUSE")
            /\ handlers' = Awaiting(i, [handlers[i] EXCEPT !.at = "done"])
       ELSE /\ port' = port
            /\ handlers' = Awaiting(i, [handlers[i] EXCEPT !.at = "estimates"])
    /\ UNCHANGED <<smVars, pmVars, inProgress, hist>>

\* getEstimateCounts() resolves for attemptRehydrate or finishImport
EstimatesDone(i) ==
    /\ handlers[i].at = "estimates"
    /\ port' = Append(port, "INIT")
    /\ handlers' = Awaiting(i, [handlers[i] EXCEPT !.at = "done"])
    /\ UNCHANGED <<smVars, pmVars, inProgress, hist>>

\* START
CmdStart(allowTypes) ==
    /\ CanReceive /\ StartsDue < MaxRuns
    /\ handlers' = Append(handlers, [NewHandler("startImport", "flag") EXCEPT
                                        !.allowTypes = allowTypes])
    /\ Received("START")
    /\ UNCHANGED <<smVars, pmVars, inProgress, port>>

\* getImportInProgressFlag() resolves for startImport
StartImportFlag(i) ==
    /\ handlers[i].name = "startImport" /\ handlers[i].at = "flag"
    /\ IF inProgress
       THEN /\ startImportTail
            /\ handlers' = Awaiting(i, [handlers[i] EXCEPT !.at = "done"])
       ELSE /\ handlers' = Awaiting(i, [handlers[i] EXCEPT !.at = "prepare"])
            /\ UNCHANGED <<runs, inProgress, port>>
    /\ UNCHANGED <<smVars, concurrency, tokenIndex, tokens, processErrors, lims, ops, hist>>

\* the for-await loop of prepareImportItems has consumed every group
prepareDoneEarly(pos) == pos > 1

prepareDone(pos) == pos > Len(Enumerated)

\* prepareImportItems: the enumerator yields its next group and the addItems
\* call for it, if its type is allowed, completes
PrepareGroup(i) ==
    /\ handlers[i].name = "startImport" /\ handlers[i].at = "prepare"
    /\ handlers[i].pos <= Len(Enumerated)
    /\ LET h == handlers[i]
           group == Enumerated[h.pos]
           data == preparedData(h.pos, h.bookmarkItems)
       IN /\ SetSM(IF group.type \in h.allowTypes THEN addItems(SM, data) ELSE SM)
          /\ handlers' = Awaiting(i, [h EXCEPT !.pos = @ + 1,
                                               !.bookmarkItems = IF group.type = "b"
                                                                 THEN group.data ELSE @])
    /\ UNCHANGED <<pmVars, calls, inProgress, port, hist>>

\* prepareImportItems: the enumerator is exhausted, startImport goes on
PrepareEnd(i) ==
    /\ handlers[i].name = "startImport" /\ handlers[i].at = "prepare"
    /\ prepareDone(handlers[i].pos)
    /\ startImportTail
    /\ handlers' = Awaiting(i, [handlers[i] EXCEPT !.at = "done"])
    /\ UNCHANGED <<smVars, concurrency, tokenIndex, tokens, processErrors, lims, ops, hist>>

\* RESUME
CmdResume ==
    /\ CanReceive /\ StartsDue < MaxRuns
    /\ runs' = Append(runs, NewRun(storageKeyStack))
    /\ Received("RESUME")
    /\ UNCHANGED <<smVars, concurrency, tokenIndex, tokens, processErrors, lims, ops, chVars>>

\* PAUSE
CmdPause ==
    /\ CanReceive
    /\ LET s == stop(PM, runs, storageKeyStack)
       IN runs' = s.rs /\ SetPM(s.pm)
    /\ Received("PAUSE")
    /\ UNCHANGED <<smVars, processErrors, chVars>>

\* CANCEL: cancelImport up to the storage.remove of clearItems
CmdCancel ==
    /\ CanReceive
    /\ LET s == stop(PM, runs, storageKeyStack)
       IN runs' = s.rs /\ SetPM(s.pm)
    /\ handlers' = Append(handlers, [NewHandler("cancelImport", "clear") EXCEPT
                                        !.keys = clearKeys(storageKeyStack)])
    /\ hist' = [cmds |-> Append(hist.cmds, "CANCEL"), cancelled |-> FALSE,
                started |-> Len(ops')]
    /\ UNCHANGED <<smVars, processErrors, inProgress, port>>

\* the storage.remove of clearItems completes: the stack is reset, cancelImport
\* posts COMPLETE and clears the flag
CancelImportDone(i) ==
    /\ handlers[i].name = "cancelImport" /\ handlers[i].at = "clear"
    /\ SetSM([SM EXCEPT !.st = RemoveKeys(storage, Range(handlers[i].keys)), !.ks = <<>>])
    /\ port' = Append(port, "COMPLETE")
    /\ inProgress' = FALSE
    /\ handlers' = Awaiting(i, [handlers[i] EXCEPT !.at = "done"])
    /\ hist' = [hist EXCEPT !.cancelled = TRUE]
    /\ UNCHANGED <<pmVars, calls>>

\* FINISH
CmdFinish ==
    /\ CanReceive
    /\ inProgress' = FALSE
    /\ handlers' = Append(handlers, NewHandler("finishImport", "estimates"))
    /\ Received("FINISH")
    /\ UNCHANGED <<smVars, pmVars, port>>

\* SET_CONCURRENCY
CmdSetConcurrency(n) ==
    /\ CanReceive
    /\ (n > 0 /\ n <= CONCURR_LIMIT) => Len(lims) < MaxLimiters
    /\ SetPM(setConcurrency(PM, n))
    /\ Received("SET_CONCURRENCY")
    /\ UNCHANGED <<smVars, processErrors, runs, chVars>>

\* the default branch of messageListener: console.error
unknownCommandSetsConcurrency(pm) == setConcurrency(pm, 1)

unknownCommand(pm) == pm

\* a command that is none of the listener's cases
CmdUnknown ==
    /\ CanReceive
    /\ SetPM(unknownCommand(PM))
    /\ hist' = [hist EXCEPT !.cmds = Append(@, "UNKNOWN")]
    /\ UNCHANGED <<smVars, processErrors, runs, chVars>>

NextConn ==
    \/ \E i \in DOMAIN handlers : AttemptRehydrateFlag(i)
    \/ \E i \in DOMAIN handlers : EstimatesDone(i)
    \/ \E allowTypes \in AllowTypes : CmdStart(allowTypes)
    \/ \E i \in DOMAIN handlers : StartImportFlag(i)
    \/ \E i \in DOMAIN handlers : PrepareGroup(i)
    \/ \E i \in DOMAIN handlers : PrepareEnd(i)
    \/ CmdResume
    \/ CmdPause
    \/ CmdCancel
    \/ \E i \in DOMAIN handlers : CancelImportDone(i)
    \/ CmdFinish
    \/ \E n \in {0, 1, CONCURR_LIMIT + 1} : CmdSetConcurrency(n)
    \/ CmdUnknown
    \/ \E r \in DOMAIN runs : ReadChunk(r)
    \/ \E o \in DOMAIN ops, res \in Results : ProcSettle(o, res)
    \/ \E o \in DOMAIN ops : RemoveRead(o)
    \/ \E o \in DOMAIN ops : RemoveWrite(o)

SpecConn == InitConn /\ [][NextConn]_vars

(***************************************************************************)
(* The estimate counts (import-estimates.js).  The snapshot is one record  *)
(* of browser.storage.local; hist holds the clock and the last call with   *)
(* its inputs and its result.  An item map is the sequence of its entries. *)
(***************************************************************************)
StoredEstsKey == "import-estimate-counts"

\* what getStoredEsts() yields before any snapshot was saved
NoStoredEsts ==
    [calculatedAt |-> 0,
     completed |-> [h |-> 0, b |-> 0, o |-> 0],
     remaining |-> [h |-> 0, b |-> 0, o |-> 0]]

getStoredEsts(st) == Get(st, StoredEstsKey, NoStoredEsts)

setStoredEsts(st, result, now) ==
    Put(st, StoredEstsKey, [calculatedAt |-> now, completed |-> result.completed,
                            remaining |-> result.remaining])

\* what createImportItems() can yield to the estimates: bookmarks first, a
\* type possibly in several groups
EstimateGroups ==
    { << [type |-> "b", data |-> << <<"a", "b">> >>],
         [type |-> "h", data |-> << <<"a", "h">>, <<"b", "h">> >>],
         [type |-> "o", data |-> <<>>] >>,
      << [type |-> "b", data |-> << <<"a", "b">>, <<"b", "b">> >>],
         [type |-> "h", data |-> << <<"b", "h">>, <<"c", "h">> >>],
         [type |-> "h", data |-> << <<"c", "h">>, <<"d", "h">> >>],
         [type |-> "o", data |-> << <<"e", "o">> >>] >>,
      << [type |-> "b", data |-> <<>>],
         [type |-> "h", data |-> <<>>],
         [type |-> "o", data |-> <<>>] >> }

\* new Map([...a, ...b])
mergeMaps(a, b) ==
    [i \in DOMAIN a |-> IF a[i][1] \in ChunkKeysOf(b)
                        THEN CHOOSE e \in Range(b) : e[1] = a[i][1]
                        ELSE a[i]]
        \o SelectSeq(b, LAMBDA e : e[1] \notin ChunkKeysOf(a))

RECURSIVE collectItems(_, _)
\* the for-await loop of getEstimateCounts: items[type] after the groups
collectItems(groups, type) ==
    IF groups = <<>> THEN <<>>
    ELSE LET n == Len(groups)
             before == collectItems(SubSeq(groups, 1, n - 1), type)
         IN IF groups[n].type = type THEN mergeMaps(before, groups[n].data) ELSE before

calcEstimateCounts(items, pageDocs, bookmarkDocs, numOldExtDone) ==
    LET completedHistory == pageDocs - bookmarkDocs
    IN [completed |-> [h |-> IF completedHistory < 0 THEN 0 ELSE completedHistory,
                       b |-> bookmarkDocs,
                       o |-> numOldExtDone],
        remaining |-> [h |-> Len(items.h), b |-> Len(items.b), o |-> Len(items.o)]]

\* the saved calculations are recent
recentInclusive(prevResult, now) == prevResult.calculatedAt >= now - Day

recent(prevResult, now) == prevResult.calculatedAt > now - Day

\* getEstimateCounts({forceRecalc}) at time now: the result, the storage after
\* it and whether it ran the calculation
getEstimateCounts(st, forceRecalc, now, groups, pageDocs, bookmarkDocs) ==
    LET prevResult == getStoredEsts(st)
        collected == [t \in {"h", "b", "o"} |-> collectItems(groups, t)]
        items == [collected EXCEPT !.h = differMaps(collected.b, collected.h)]
        result == calcEstimateCounts(items, pageDocs, bookmarkDocs, 0)
    IN IF ~forceRecalc /\ recent(prevResult, now)
       THEN [ret |-> prevResult, st |-> st, calc |-> FALSE]
       ELSE [ret |-> result, st |-> setStoredEsts(st, result, now), calc |-> TRUE]

InitEsts ==
    /\ storage = <<>>
    /\ storageKeyStack = <<>>
    /\ errStorageKeyStack = <<>>
    /\ currErrChunk = -1
    /\ chunkSize = ChunkSize
    /\ concurrency = 1
    /\ tokenIndex = 0
    /\ tokens = <<>>
    /\ processErrors = FALSE
    /\ lims = <<Limiter(1)>>
    /\ runs = <<>>
    /\ ops = <<>>
    /\ calls = <<>>
    /\ inProgress = FALSE /\ port = <<>> /\ handlers = <<>>
    /\ hist = [now |-> Day, call |-> "init"]

\* the clock
Tick ==
    /\ hist.now < Day + MaxTicks
    /\ hist' = [now |-> hist.now + 1, call |-> "tick"]
    /\ UNCHANGED <<smVars, pmVars, chVars>>

GetEstimateCounts(forceRecalc, groups, pageDocs, bookmarkDocs) ==
    LET r == getEstimateCounts(storage, forceRecalc, hist.now, groups, pageDocs, bookmarkDocs)
    IN /\ storage' = r.st
       /\ hist' = [now |-> hist.now, call |-> "getEstimateCounts",
                   forceRecalc |-> forceRecalc, groups |-> groups,
                   pageDocs |-> pageDocs, bookmarkDocs |-> bookmarkDocs,
                   prevResult |-> getStoredEsts(storage), ret |-> r.ret, calc |-> r.calc]
       /\ UNCHANGED <<storageKeyStack, errStorageKeyStack, currErrChunk, chunkSize, calls>>
       /\ UNCHANGED <<pmVars, chVars>>

NextEsts ==
    \/ Tick
    \/ \E forceRecalc \in BOOLEAN, groups \in EstimateGroups, pageDocs \in 0..1,
          bookmarkDocs \in 0..1 :
          GetEstimateCounts(forceRecalc, groups, pageDocs, bookmarkDocs)

SpecEsts == InitEsts /\ [][NextEsts]_vars

(***************************************************************************)
(* The state manager across restarts of the background page: the module is *)
(* loaded anew, the constructor runs rehydrateState over the storage the    *)
(* earlier calls left, and the calls go on.                                 *)
(***************************************************************************)
RehydrateState(readOk) ==
    /\ Len(Get(storage, STATE_STORAGE_KEY, <<>>)) <= MaxChunks
    /\ SetSM(rehydrateState(SM, readOk))
    /\ hist' = [call |-> "rehydrateState", arg |-> readOk, ret |-> rehydrateOutcome(readOk)]
    /\ UNCHANGED <<pmVars, calls>>
    /\ UNCHANGED chVars

NextBoot ==
    \/ \E j \in 1..MaxAdd : AddItems(ItemRun(1, j))
    \/ \E chunkKey \in Range(storageKeyStack), itemKey \in QueuedKeys(storage, storageKeyStack) :
           RemoveItem(chunkKey, itemKey)
    \/ ClearItems
    \/ \E readOk \in BOOLEAN : RehydrateState(readOk)

SpecBoot == InitSM /\ [][NextBoot]_vars

(***************************************************************************)
(* The state manager one storage operation at a time.  Its methods are     *)
(* async: a call runs to its next browser.storage.local operation, waits   *)
(* for it, and goes on when it completes; meanwhile other calls begin and  *)
(* other operations complete.  START reaches addItems (handleItemCreation) *)
(* and CANCEL reaches clearItems, and the message listener does not wait   *)
(* for one command before it takes the next.                               *)
(***************************************************************************)
\* a call of the state manager: the storage operation it waits for and the
\* locals it goes on with
NewCall(method) ==
    [method |-> method, stage |-> method, wait |-> "get",
     chunks |-> <<>>, chunkKey |-> "", itemKey |-> "", item |-> UNDEFINED,
     idx |-> 0, payload |-> <<>>]

\* storage.set(payload)
RECURSIVE PutAll(_, _)
PutAll(st, payload) ==
    IF payload = <<>> THEN st
    ELSE PutAll(Put(st, Head(payload)[1], Head(payload)[2]), Tail(payload))

\* addChunk up to its storage.get: the next key is taken and pushed
addChunkBegin(sm, c) ==
    [sm |-> [sm EXCEPT !.ks = Append(sm.ks, getNextChunkKey(sm.ks))],
     call |-> [c EXCEPT !.chunkKey = getNextChunkKey(sm.ks), !.wait = "get"]]

Finished(sm, c) == [sm |-> sm, call |-> [c EXCEPT !.wait = "done"]]

\* flagAsError after checkErrExists has answered true: the error chunk key
\* is chosen and the chunk under it is asked for
flagChooseErrChunk(sm, c) ==
    LET eks1 == IF Len(sm.eks) = 0 THEN <<ERR_STORAGE_PREFIX \o "0">> ELSE sm.eks
    IN [sm |-> [sm EXCEPT !.eks = eks1],
        call |-> [c EXCEPT !.stage = "errChunk", !.chunkKey = eks1[Len(eks1)],
                           !.wait = "get"]]

\* a call goes on after its storage.get has completed
afterGet(sm, c) ==
    CASE c.stage = "addItems" ->
           [sm |-> sm,
            call |-> [c EXCEPT !.wait = "set",
                               !.payload = << <<c.chunkKey, Head(c.chunks)>>,
                                              <<STATE_STORAGE_KEY,
                                                Append(Get(sm.st, STATE_STORAGE_KEY, <<>>),
                                                       c.chunkKey)>> >>]]
      [] c.stage \in {"removeItem", "flagAsError"} ->
           LET chunk == Get(sm.st, c.chunkKey, <<>>)
           IN [sm |-> sm,
               call |-> [c EXCEPT !.wait = "set",
                                  !.item = itemToRemove(chunk, c.itemKey),
                                  !.payload = << <<c.chunkKey,
                                                   remainingChunk(chunk, c.itemKey)>> >>]]
      [] c.stage = "checkErrExists" ->
           LET chunk == getChunk(sm.st, sm.eks[c.idx]).chunk
           IN IF chunk # UNDEFINED /\ c.itemKey \in ChunkKeysOf(chunk)
              THEN flagChooseErrChunk(sm, c)
              ELSE IF c.idx < Len(sm.eks)
                   THEN [sm |-> sm, call |-> [c EXCEPT !.idx = c.idx + 1]]
                   ELSE Finished(sm, c)
      [] c.stage = "errChunk" ->
           LET existing == Get(sm.st, c.chunkKey, <<>>)
               full == Len(existing) >= sm.cs
               eks2 == IF full THEN Append(sm.eks, getNextErrChunkKey(sm.eks)) ELSE sm.eks
               key2 == IF full THEN getNextErrChunkKey(sm.eks) ELSE c.chunkKey
           IN [sm |-> [sm EXCEPT !.eks = eks2],
               call |-> [c EXCEPT !.stage = "errSet", !.wait = "set", !.chunkKey = key2,
                                  !.payload = << <<key2, setEntry(IF full THEN <<>> ELSE existing,
                                                                  c.itemKey, c.item)>>,
                                                 <<ERR_STATE_STORAGE_KEY, eks2>> >>]]

\* a call goes on after its storage.set has completed
afterSet(sm, c) ==
    CASE c.stage = "addItems" ->
           IF Len(c.chunks) > 1
           THEN addChunkBegin(sm, [c EXCEPT !.chunks = Tail(c.chunks)])
           ELSE Finished(sm, c)
      [] c.stage = "removeItem" -> Finished(sm, c)
      [] c.stage = "flagAsError" ->
           IF Len(sm.eks) = 0 THEN Finished(sm, c)
           ELSE [sm |-> sm, call |-> [c EXCEPT !.stage = "checkErrExists", !.idx = 1,
                                               !.wait = "get"]]
      [] c.stage = "errSet" -> Finished(sm, c)

\* the calls still waiting once call i has gone on as c
Waiting(i, c) ==
    IF c.wait = "done"
    THEN SubSeq(calls, 1, i - 1) \o SubSeq(calls, i + 1, Len(calls))
    ELSE [calls EXCEPT ![i] = c]

CanBegin == Len(calls) < MaxCalls /\ hist.begun < MaxBegun
Begun(method) == hist' = [call |-> method, begun |-> hist.begun + 1]

InitCalls ==
    /\ \E size \in 1..ChunkSize :
           /\ storage = FreshSM(size).st
           /\ storageKeyStack = FreshSM(size).ks
           /\ errStorageKeyStack = FreshSM(size).eks
           /\ currErrChunk = FreshSM(size).cur
           /\ chunkSize = FreshSM(size).cs
    /\ concurrency = 1
    /\ tokenIndex = 0
    /\ tokens = <<>>
    /\ processErrors = FALSE
    /\ lims = <<Limiter(1)>>
    /\ runs = <<>>
    /\ ops = <<>>
    /\ calls = <<>>
    /\ hist = [call |-> "init", begun |-> 0]
    /\ inProgress = FALSE /\ port = <<>> /\ handlers = <<>>

\* addItems(itemsMap) is called and runs to the storage.get of its first addChunk
BeginAddItems(itemsMap) ==
    /\ CanBegin
    /\ itemsMap # <<>>
    /\ LET r == addChunkBegin(SM, [NewCall("addItems") EXCEPT
                                      !.chunks = splitChunks(itemsMap, chunkSize)])
       IN /\ SetSM(r.sm)
          /\ calls' = Append(calls, r.call)
    /\ Begun("addItems")
    /\ UNCHANGED pmVars
    /\ UNCHANGED chVars

\* clearItems is called: storage.remove is handed the keys the stack holds now
BeginClearItems ==
    /\ CanBegin
    /\ calls' = Append(calls, [NewCall("clearItems") EXCEPT
                                  !.wait = "remove",
                                  !.payload = clearKeys(storageKeyStack)])
    /\ Begun("clearItems")
    /\ UNCHANGED <<storage, storageKeyStack, errStorageKeyStack, currErrChunk,
                   chunkSize, pmVars>>
    /\ UNCHANGED chVars

BeginRemoveItem(chunkKey, itemKey) ==
    /\ CanBegin
    /\ calls' = Append(calls, [NewCall("removeItem") EXCEPT
                                  !.chunkKey = chunkKey, !.itemKey = itemKey])
    /\ Begun("removeItem")
    /\ UNCHANGED <<storage, storageKeyStack, errStorageKeyStack, currErrChunk,
                   chunkSize, pmVars>>
    /\ UNCHANGED chVars

BeginFlagAsError(chunkKey, itemKey) ==
    /\ CanBegin
    /\ calls' = Append(calls, [NewCall("flagAsError") EXCEPT
                                  !.chunkKey = chunkKey, !.itemKey = itemKey])
    /\ Begun("flagAsError")
    /\ UNCHANGED <<storage, storageKeyStack, errStorageKeyStack, currErrChunk,
                   chunkSize, pmVars>>
    /\ UNCHANGED chVars

\* the storage.get call i waits for completes
StorageGet(i) ==
    /\ calls[i].wait = "get"
    /\ LET r == afterGet(SM, calls[i])
       IN SetSM(r.sm) /\ calls' = Waiting(i, r.call)
    /\ UNCHANGED <<pmVars, hist>>
    /\ UNCHANGED chVars

\* the storage.set call i waits for completes
StorageSet(i) ==
    /\ calls[i].wait = "set"
    /\ LET r == afterSet([SM EXCEPT !.st = PutAll(storage, calls[i].payload)], calls[i])
       IN SetSM(r.sm) /\ calls' = Waiting(i, r.call)
    /\ UNCHANGED <<pmVars, hist>>
    /\ UNCHANGED chVars

\* the storage.remove of a clearItems call completes; the call resets the stack
StorageRemove(i) ==
    /\ calls[i].wait = "remove"
    /\ SetSM([SM EXCEPT !.st = RemoveKeys(storage, Range(calls[i].payload)), !.ks = <<>>])
    /\ calls' = Waiting(i, [calls[i] EXCEPT !.wait = "done"])
    /\ UNCHANGED <<pmVars, hist>>
    /\ UNCHANGED chVars

NextCalls ==
    \/ \E i \in 1..MaxAdd, j \in 1..MaxAdd : BeginAddItems(ItemRun(i, j))
    \/ BeginClearItems
    \/ \E chunkKey \in Range(storageKeyStack), itemKey \in QueuedKeys(storage, storageKeyStack) :
           BeginRemoveItem(chunkKey, itemKey)
    \/ \E chunkKey \in Range(storageKeyStack), itemKey \in QueuedKeys(storage, storageKeyStack) :
           BeginFlagAsError(chunkKey, itemKey)
    \/ \E i \in DOMAIN calls : StorageGet(i)
    \/ \E i \in DOMAIN calls : StorageSet(i)
    \/ \E i \in DOMAIN calls : StorageRemove(i)

SpecCalls == InitCalls /\ [][NextCalls]_vars

(***************************************************************************)
(* Properties of the processing engine.                                    *)
(***************************************************************************)
OpsOfRun(r) == {o \in DOMAIN ops : ops[o].run = r}
InChunk(st, chunkKey, key) == chunkKey \in DOMAIN st /\ key \in ChunkKeysOf(st[chunkKey])
Unsettled(op) == op.phase \in {"proc", "rmRead", "rmWrite"}
KeysOfOps(O) == {ops[o].key : o \in O}

\* C1: after a stop() that found k >= 1 processItem calls pending, none of
\* their items leaves its main chunk before the next start(), and the
\* start() invocation that follows hands exactly those items and the items
\* that had not been scheduled to the processor.  Stated for a stop() that
\* follows a single start().
C1_StopKeepsPendingItems ==
    /\ (hist.epoch = "stopped" /\ Len(runs) = 1) =>
           \A o \in hist.pend : InChunk(storage, ops[o].chunkKey, ops[o].key)
    /\ (hist.epoch = "resumed" /\ hist.run = 2 /\ Len(runs) = 2
            /\ runs[2].phase = "done") =>
           KeysOfOps(OpsOfRun(2)) = KeysOfOps(hist.pend) \cup hist.rest

\* C3: every pending processItem call has its own cancel handle in the token
\* pool, so that a stop() at any moment reaches it, and after a stop() every
\* call that was pending when it ran has been cancelled.
C3_StopReachesEveryPending ==
    /\ \A o \in Pending(ops) : o \in Range(tokens)
    /\ hist.epoch = "stopped" => \A o \in hist.pend : ops[o].phase = "cancelled"

\* C4: once stop() has cancelled an in-flight item of a start() invocation,
\* that invocation hands no further item to the processor, neither a queued
\* item of the current chunk nor an item of a later chunk: every call it made
\* was made before the cancellation.
C4_NoItemAfterCancel ==
    \A r \in DOMAIN runs :
        runs[r].cancelledAt >= 0 =>
            /\ runs[r].phase = "cancelled"
            /\ \A o \in OpsOfRun(r) : o <= runs[r].cancelledAt

\* a cancelled invocation whose chunk still holds an item it never handed to
\* the processor, with every limiter queue drained
C4_Witness ==
    \E r \in DOMAIN runs :
        /\ runs[r].cancelledAt >= 0
        /\ \A l \in DOMAIN lims : lims[l].jobs = <<>>
        /\ Pending(ops) = {}
        /\ \E key \in ChunkKeysOf(storage[storageKeyStack[runs[r].idx]]) :
               key \notin KeysOfOps(OpsOfRun(r))

\* C5 (order): a start() invocation takes the chunks in key-stack order
C5_InStackOrder ==
    \A o \in DOMAIN ops :
        /\ ops[o].chunkKey = storageKeyStack[ops[o].idx]
        /\ \A p \in DOMAIN ops : (p < o /\ ops[p].run = ops[o].run) => ops[p].idx <= ops[o].idx

\* C5 (step): when an invocation hands an item of a chunk to the processor,
\* every call it made for an earlier chunk has settled
C5_Step ==
    \A o \in (DOMAIN ops') \ (DOMAIN ops) :
        \A p \in DOMAIN ops :
            (ops[p].run = ops'[o].run /\ ops[p].idx < ops'[o].idx) => ~Unsettled(ops'[p])

C6_OneReport ==
    /\ \A o \in DOMAIN ops :
          /\ ops[o].phase \in {"rmRead", "rmWrite"} =>
                /\ ops[o].reports = 1 /\ ops[o].removes = 1
                /\ ops[o].error <=> ops[o].res \in {"err", "timeout"}
          /\ ops[o].phase = "done" => ops[o].reports = 1 /\ ops[o].removes = 1
    /\ \A o, p \in DOMAIN ops :
          (o # p /\ ops[o].run = ops[p].run) =>
              <<ops[o].chunkKey, ops[o].key>> # <<ops[p].chunkKey, ops[p].key>>

\* C6 (step): when the call returns, its item is not in its main chunk
C6_Step ==
    \A o \in DOMAIN ops :
        (ops[o].phase = "rmWrite" /\ ops'[o].phase = "done") =>
            ~InChunk(storage', ops[o].chunkKey, ops[o].key)

\* C6: every item whose processing settles without cancellation produces
\* exactly one after-item report, with the error when it failed, and is then
\* removed from its main chunk; it is not handed to the processor again by
\* the same start() invocation.
C6_ReportedThenRemoved == []C6_OneReport /\ [][C6_Step]_vars

\* a failed item has been reported and its removal is being written
C6_Witness ==
    \E o \in DOMAIN ops : ops[o].phase = "rmWrite" /\ ops[o].error
        /\ \E p \in DOMAIN ops : ops[p].phase = "done"

\* C7: a call that ended with the cancellation signal has made no report and
\* no removeItem or flagAsError; a call whose processor timed out or reported
\* an error is reported with the error and dequeued, and it never ends a
\* start() invocation the way a cancellation does.
C7_CancelIsNotFailure ==
    /\ \A o \in DOMAIN ops :
          /\ ops[o].phase = "cancelled" =>
                ops[o].reports = 0 /\ ops[o].removes = 0 /\ ops[o].flags = 0
          /\ ops[o].res \in {"err", "timeout"} =>
                /\ ops[o].phase \in {"rmRead", "rmWrite"}
                /\ ops[o].reports = 1 /\ ops[o].error /\ ops[o].removes = 1
    /\ \A r \in DOMAIN runs :
          (runs[r].phase = "cancelled" \/ runs[r].failed # {}) =>
              \E o \in OpsOfRun(r) : ops[o].phase = "cancelled"

\* one call was cancelled while another one, whose fetch timed out, is being
\* dequeued
C7_Witness ==
    /\ \E o \in DOMAIN ops : ops[o].phase = "cancelled"
    /\ \E o \in DOMAIN ops : ops[o].res = "timeout" /\ ops[o].phase = "rmWrite"

(***************************************************************************)
(* Properties of the engine under SET_CONCURRENCY and SET_PROCESS_ERRS.    *)
(***************************************************************************)
MaxOf(S) == CHOOSE x \in S : \A y \in S : y <= x

\* C2: the number of processItem calls that have been started and have not
\* settled never exceeds the concurrency value, whatever start, stop, resume
\* and setConcurrency calls were made.  Stated in the form that is weakest for
\* the code: the calls are counted against the largest concurrency value that
\* has been in force, so that lowering the value under running calls does not
\* count against it.
C2_PendingWithinConcurrency ==
    Cardinality({o \in DOMAIN ops : Unsettled(ops[o])})
        <= MaxOf({lims[l].count : l \in DOMAIN lims})

InErrStore(st, eks, key) == \E i \in DOMAIN eks : InChunk(st, eks[i], key)

\* C8 (step): when the processItem call of a failed item returns, the item is
\* in an error chunk if error routing was enabled when its processing failed,
\* and in no chunk if it was disabled
C8_Step ==
    \A o \in DOMAIN ops :
        (ops[o].phase = "rmWrite" /\ ops'[o].phase = "done" /\ ops[o].error) =>
            IF ops[o].routed
            THEN InErrStore(storage', errStorageKeyStack', ops[o].key)
            ELSE /\ ~InErrStore(storage', errStorageKeyStack', ops[o].key)
                 /\ ~InChunk(storage', ops[o].chunkKey, ops[o].key)

\* C8: with error routing enabled through SET_PROCESS_ERRS(true), an item
\* whose processing fails with an error that is not a cancellation is moved to
\* the error store by flagAsError instead of being plainly removed; with
\* routing disabled it is plainly removed.
C8_FailedItemsAreRouted == [][C8_Step]_vars

(***************************************************************************)
(* Properties of the ImportStateManager.                                   *)
(***************************************************************************)
PersistedChunkKeys ==
    (Range(storageKeyStack) \cup Range(errStorageKeyStack)) \cap DOMAIN storage

\* C9: after any sequence of addItems, setItems, removeItem, flagAsError and
\* clearItems calls, each item key is in at most one persisted chunk, main
\* and error chunks counted together.
C9_KeyInOneChunk ==
    \A k1, k2 \in PersistedChunkKeys :
        k1 # k2 => ChunkKeysOf(storage[k1]) \cap ChunkKeysOf(storage[k2]) = {}

\* ceil(n / c)
CeilDiv(n, c) == (n + c - 1) \div c

\* C10 (step): what a completed addItems call has done to the storage and the
\* key stack it found
C10_Step ==
    hist'.call = "addItems" =>
        LET n == Len(hist'.arg)
            c == chunkSize
            m == CeilDiv(n, c)
            old == Len(storageKeyStack)
        IN IF n = 0
           THEN storage' = storage /\ storageKeyStack' = storageKeyStack
           ELSE /\ Len(storageKeyStack') = old + m
                /\ SubSeq(storageKeyStack', 1, old) = storageKeyStack
                /\ \A k \in DOMAIN storage \ {STATE_STORAGE_KEY} : storage'[k] = storage[k]
                /\ \A j \in 1..m :
                      LET chunkKey == storageKeyStack'[old + j]
                          size == IF j < m THEN c ELSE IF n % c = 0 THEN c ELSE n % c
                      IN /\ chunkKey \notin Range(storageKeyStack)
                         /\ chunkKey \in DOMAIN storage'
                         /\ storage'[chunkKey]
                                = SubSeq(hist'.arg, (j - 1) * c + 1, (j - 1) * c + size)

\* C10: addItems on n >= 1 items with chunk size c appends exactly ceil(n/c)
\* main chunks to the key stack, holding the items in input iteration order,
\* c items each except the last, which holds n mod c items (c when n mod c = 0);
\* addItems on an empty input leaves the storage and the key stack as they were.
C10_AddItemsChunks == [][C10_Step]_vars

\* addItems of three items with chunk size 2 on a queue that held one chunk:
\* a full chunk and a last chunk of one item were appended
C10_Witness ==
    /\ hist.call = "addItems" /\ Len(hist.arg) = 3 /\ chunkSize = 2
    /\ Len(storageKeyStack) = 3
    /\ Len(storage[storageKeyStack[2]]) = 2 /\ Len(storage[storageKeyStack[3]]) = 1

\* the entries of the yielded chunks, in the order they were yielded
RECURSIVE Flatten(_)
Flatten(pairs) ==
    IF pairs = <<>> THEN <<>>
    ELSE (IF Head(pairs).chunk = UNDEFINED THEN <<>> ELSE Head(pairs).chunk)
             \o Flatten(Tail(pairs))

\* the last call was an addItems that found the queue empty: the key stack
\* holds exactly the chunks it appended
AddedToEmpty ==
    /\ hist.call = "addItems"
    /\ Len(storageKeyStack) = CeilDiv(Len(hist.arg), chunkSize)

\* C11 (step): getItems() right after an addItems(items) on an empty queue
C11_Step ==
    (AddedToEmpty /\ hist'.call = "getItems") =>
        LET flat == Flatten(hist'.ret)
        IN /\ Len(flat) = Len(hist.arg)
           /\ Range(flat) = Range(hist.arg)
           /\ \A i \in DOMAIN hist'.ret :
                 /\ hist'.ret[i].chunkKey \in DOMAIN storage
                 /\ storage[hist'.ret[i].chunkKey] = hist'.ret[i].chunk

\* C11: round trip.  Starting from an empty queue, after addItems(items) the
\* chunks that getItems() yields hold, taken together, exactly the keys of
\* items, each with its original value, and every yielded chunkKey is the
\* storage key under which the yielded chunk is persisted.
C11_RoundTrip == [][C11_Step]_vars

\* three items added to an empty queue with chunk size 2 were read back as two
\* chunks
C11_Witness ==
    /\ hist.call = "getItems" /\ chunkSize = 2
    /\ Len(hist.ret) = 2 /\ Len(Flatten(hist.ret)) = 3

ErrChunksWith(st, eks, key) == Cardinality({i \in DOMAIN eks : InChunk(st, eks[i], key)})

\* C13 (step): a flagAsError(chunkKey, itemKey) call whose item is in its main
\* chunk and in no error chunk
C13_Step ==
    (/\ hist'.call = "flagAsError"
     /\ InChunk(storage, hist'.arg[1], hist'.arg[2])
     /\ ~InErrStore(storage, errStorageKeyStack, hist'.arg[2])) =>
        /\ ErrChunksWith(storage', errStorageKeyStack', hist'.arg[2]) = 1
        /\ ~InChunk(storage', hist'.arg[1], hist'.arg[2])

\* C13: flagAsError(chunkKey, itemKey) on an item that is in the main chunk
\* chunkKey and in no error chunk ends with the item in exactly one error
\* chunk and absent from its main chunk.
C13_FlagMovesItem == [][C13_Step]_vars

\* every persisted main chunk holds at most chunkSize items
MainChunksWithinSize ==
    \A k \in Range(storageKeyStack) \cap DOMAIN storage : Len(storage[k]) <= chunkSize

\* the error key stack and the error chunks are empty in every state
ErrStoreEmpty ==
    /\ errStorageKeyStack = <<>>
    /\ \A k \in DOMAIN storage : k # ERR_STATE_STORAGE_KEY

\* C16 (step): what a removeItem(chunkKey, itemKey) call has done and returned
C16_Step ==
    hist'.call = "removeItem" =>
        LET chunkKey == hist'.arg[1]
            itemKey == hist'.arg[2]
            before == storage[chunkKey]
            after == storage'[chunkKey]
            held == {i \in DOMAIN before : before[i][1] = itemKey}
        IN /\ DOMAIN storage' = DOMAIN storage
           /\ \A k \in DOMAIN storage : k # chunkKey => storage'[k] = storage[k]
           /\ Range(after) = {e \in Range(before) : e[1] # itemKey}
           /\ Len(after) = Len(before) - Cardinality(held)
           /\ storageKeyStack' = storageKeyStack
           /\ errStorageKeyStack' = errStorageKeyStack
           /\ chunkKey \in Range(storageKeyStack') /\ chunkKey \in DOMAIN storage'
           /\ IF held = {}
              THEN hist'.ret = UNDEFINED /\ after = before
              ELSE \E i \in held : hist'.ret = before[i][2]

\* C16: removeItem(chunkKey, itemKey) deletes only that entry from that chunk:
\* every other entry of the chunk, every other chunk and both key stacks are
\* unchanged; the chunk's record stays persisted and its key stays in the
\* stack even when the chunk becomes empty; the call returns the removed item,
\* and returns nothing and leaves the chunk as it was when itemKey was not in
\* the chunk.
C16_RemoveItemOnly == [][C16_Step]_vars

\* removeItem has returned the only item of a chunk of a two-chunk queue
C16_Witness ==
    /\ hist.call = "removeItem" /\ hist.ret # UNDEFINED
    /\ Len(storageKeyStack) = 2
    /\ storage[hist.arg[1]] = <<>>

\* C17 (step): what a clearItems call has done
C17_Step ==
    hist'.call = "clearItems" =>
        /\ \A k \in Range(storageKeyStack) : k \notin DOMAIN storage'
        /\ STATE_STORAGE_KEY \notin DOMAIN storage'
        /\ storageKeyStack' = <<>>
        /\ errStorageKeyStack' = errStorageKeyStack
        /\ \A k \in Range(errStorageKeyStack) \cup {ERR_STATE_STORAGE_KEY} :
              /\ k \in DOMAIN storage' <=> k \in DOMAIN storage
              /\ k \in DOMAIN storage => storage'[k] = storage[k]
        /\ \A k \in DOMAIN storage' : k \in DOMAIN storage /\ storage'[k] = storage[k]

C18_Step ==
    (hist.call = "clearItems" /\ hist'.call = "clearItems") =>
        /\ smVars' = smVars
        /\ storageKeyStack' = <<>>
        /\ \A k \in DOMAIN storage' :
              k # STATE_STORAGE_KEY /\ k \notin Range(storageKeyStack) \cup Range(hist.removed)

\* C18: clearItems is idempotent: the state after two consecutive calls
\* equals the state after one, with the main queue empty.
C18_ClearItemsIdempotent == [][C18_Step]_vars

\* a second clearItems call has followed one that removed two chunks and the
\* key-stack record
C18_Witness ==
    /\ hist.call = "clearItems" /\ hist.again = 3
    /\ storageKeyStack = <<>>

\* C19 (step): what a diffAgainstState(candidates) call returns and leaves
C19_Step ==
    hist'.call = "diffAgainstState" =>
        /\ hist'.ret = SelectSeq(hist'.arg,
                                 LAMBDA e : e[1] \notin QueuedKeys(storage, storageKeyStack))
        /\ smVars' = smVars

\* C19: diffAgainstState(candidates) returns exactly the entries of candidates
\* whose keys are in no main chunk of the queue, and never modifies storage or
\* the key stacks.
C19_DiffAgainstState == [][C19_Step]_vars

\* on a queue of two chunks, diffAgainstState has kept some candidates and
\* dropped one that is in the first chunk only
C19_Witness ==
    /\ hist.call = "diffAgainstState"
    /\ Len(storageKeyStack) >= 2
    /\ hist.ret # <<>> /\ Len(hist.ret) < Len(hist.arg)
    /\ \E i \in DOMAIN hist.arg :
          /\ InChunk(storage, storageKeyStack[1], hist.arg[i][1])
          /\ ~InChunk(storage, storageKeyStack[Len(storageKeyStack)], hist.arg[i][1])

\* the key stacks as persisted
PersistedStack == Get(storage, STATE_STORAGE_KEY, <<>>)
PersistedErrStack == Get(storage, ERR_STATE_STORAGE_KEY, <<>>)

\* C20: in persisted storage, every key listed in the persisted main or error
\* key-stack record has a persisted chunk record, at every instant, the
\* instants between the storage operations of addItems and flagAsError
\* included (a crash followed by rehydration never yields a stack entry
\* without its chunk); the key stacks only grow by appending, except for
\* clearItems.  The formula is the first part: no persisted stack entry
\* without its persisted chunk.
C20_StackEntriesHaveChunks ==
    \A k \in Range(PersistedStack) \cup Range(PersistedErrStack) : k \in DOMAIN storage

\* C21 (step): what a rehydrateState call has done
C21_Step ==
    hist'.call = "rehydrateState" =>
        /\ storageKeyStack' = IF hist'.arg THEN PersistedStack ELSE <<>>
        /\ errStorageKeyStack' = IF hist'.arg THEN PersistedErrStack ELSE <<>>
        /\ hist'.ret = "resolved"
        /\ storage' = storage

\* C21: rehydrateState sets the in-memory main and error key stacks to the
\* persisted key-stack records, and to empty sequences when the storage read
\* fails; the failure is not propagated to the caller.
C21_Rehydrate == [][C21_Step]_vars

\* a rehydrateState whose read failed has emptied the in-memory stack over a
\* persisted record of two keys
C21_Witness ==
    /\ hist.call = "rehydrateState" /\ ~hist.arg
    /\ storageKeyStack = <<>> /\ Len(PersistedStack) = 2

\* C22 (step): what a SET_CONCURRENCY command with payload n has done
C22_Step ==
    \A n \in ConcInputs :
        SetConcurrency(n) =>
            IF 1 <= n /\ n <= 5
            THEN /\ concurrency' = n
                 /\ Len(lims') = Len(lims) + 1
                 /\ lims'[Len(lims')] = [count |-> n, outstanding |-> 0, jobs |-> <<>>]
                 /\ \A l \in DOMAIN lims : lims'[l] = lims[l]
            ELSE /\ concurrency' = concurrency
                 /\ lims' = lims

\* C22: setting the concurrency to n takes effect only when 1 <= n <= 5; for
\* any other value the previously set concurrency and its limiter stay in
\* effect unchanged.
C22_ConcurrencyRange == [][C22_Step]_vars

\* the setter has replaced the initial concurrency and limiter by another
\* value while a processItem call was pending
C22_Witness ==
    /\ Len(lims) = 2
    /\ concurrency = lims[2].count /\ concurrency # lims[1].count
    /\ Pending(ops) # {}


Rehydrating(hs, at) ==
    hs # <<>> /\ hs[1].name = "attemptRehydrate" /\ hs[1].at = at

\* C23: on connect the handler posts PAUSE when the in-progress flag it reads
\* is set and INIT, after the estimate counts, when it is clear; no run of
\* the progress manager exists and no item is handed to the processor before
\* a START or RESUME command has been received.
C23_Step ==
    /\ (Rehydrating(handlers, "flag") /\ ~Rehydrating(handlers', "flag")) =>
          IF inProgress
          THEN port' = Append(port, "PAUSE") /\ ~Rehydrating(handlers', "estimates")
          ELSE port' = port /\ Rehydrating(handlers', "estimates")
    /\ (Rehydrating(handlers, "estimates") /\ ~Rehydrating(handlers', "estimates")) =>
          port' = Append(port, "INIT")
    /\ (runs' # <<>> \/ ops' # <<>>) =>
          \E k \in DOMAIN hist'.cmds : hist'.cmds[k] \in {"START", "RESUME"}

C23_ConnectView == [][C23_Step]_vars

C23_Witness ==
    /\ port = <<"PAUSE">> /\ inProgress /\ handlers = <<>>
    /\ hist.cmds = <<"SET_CONCURRENCY", "UNKNOWN">>
    /\ storageKeyStack # <<>> /\ runs = <<>> /\ ops = <<>>


\* the keys prepareImportItems(allowTypes) hands to addItems
PreparedKeys(allowTypes) ==
    UNION {ChunkKeysOf(preparedData(pos, Enumerated[1].data)) :
             pos \in {q \in DOMAIN Enumerated : Enumerated[q].type \in allowTypes}}

StartedImport ==
    /\ port' = Append(port, "START")
    /\ inProgress'
    /\ runs' = Append(runs, NewRun(storageKeyStack))

\* C24: startImport adds the enumerated items only when the flag it reads is
\* clear; when the flag is set it adds nothing.  In both cases it then posts
\* START, sets the flag and starts the progress manager, and it does so only
\* after its population is over: nothing is posted or started while it
\* populates, and with no CANCEL and no earlier run every prepared key is
\* queued when the progress manager starts.
C24_Step ==
    /\ \A i \in DOMAIN handlers :
          StartImportFlag(i) =>
             /\ UNCHANGED <<storage, storageKeyStack>>
             /\ IF inProgress
                THEN StartedImport
                ELSE UNCHANGED <<port, inProgress, runs>>
    /\ \A i \in DOMAIN handlers :
          PrepareGroup(i) => UNCHANGED <<port, inProgress, runs, ops>>
    /\ \A i \in DOMAIN handlers :
          PrepareEnd(i) =>
             /\ StartedImport
             /\ UNCHANGED <<storage, storageKeyStack>>
             /\ ("CANCEL" \notin Range(hist.cmds) /\ runs = <<>>) =>
                   PreparedKeys(handlers[i].allowTypes)
                      \subseteq QueuedKeys(storage, storageKeyStack)
    /\ (Len(port') > Len(port) /\ port'[Len(port')] = "START") =>
          \E i \in DOMAIN handlers : StartImportFlag(i) \/ PrepareEnd(i)

C24_StartImport == [][C24_Step]_vars

C24_Witness ==
    /\ port = <<"INIT", "START">> /\ inProgress /\ hist.cmds = <<"START">>
    /\ Len(runs) = 1 /\ ops = <<>> /\ handlers = <<>>
    /\ QueuedKeys(storage, storageKeyStack) = {"a", "b"}


\* C25: once cancelImport has completed, and until the next command, the
\* progress manager is stopped (no processItem call is pending), the main
\* queue is cleared (no main key in the stack, no main chunk and no main
\* stack record persisted), the in-progress flag is clear and COMPLETE has
\* been posted.
C25_AfterCancel ==
    hist.cancelled =>
        /\ Pending(ops) = {}
        /\ storageKeyStack = <<>>
        /\ \A k \in DOMAIN storage : k = ERR_STATE_STORAGE_KEY
        /\ ~inProgress
        /\ "COMPLETE" \in Range(port)


\* C26 (step): the step that receives an unknown command changes nothing but
\* the record of received commands
C26_Step ==
    (Len(hist'.cmds) > Len(hist.cmds) /\ hist'.cmds[Len(hist'.cmds)] = "UNKNOWN") =>
        /\ UNCHANGED <<storage, storageKeyStack, errStorageKeyStack, currErrChunk, chunkSize>>
        /\ UNCHANGED <<inProgress, concurrency, lims, tokens, tokenIndex, processErrors>>
        /\ UNCHANGED <<runs, ops, handlers, port>>

\* C26 (state): after an unknown command the listener still takes commands
C26_StillListening ==
    (hist.cmds # <<>> /\ hist.cmds[Len(hist.cmds)] = "UNKNOWN" /\ CanReceive) =>
        /\ ENABLED CmdPause
        /\ ENABLED CmdCancel
        /\ ENABLED CmdFinish
        /\ ENABLED CmdUnknown
        /\ StartsDue < MaxRuns => (ENABLED CmdResume /\ ENABLED CmdStart({"h"}))

\* C26: a command that is none of the listener's cases changes neither the
\* queue, the in-progress flag, the concurrency nor the running operations,
\* posts no event, and the commands that follow it are still handled.
C26_UnknownCommand == [][C26_Step]_vars /\ []C26_StillListening

C26_Witness ==
    /\ hist.cmds = <<"UNKNOWN", "START">> /\ port = <<"PAUSE", "START">>
    /\ inProgress /\ Pending(ops) # {}


\* the keys of type t in the groups
KeysOfType(groups, t) ==
    UNION {ChunkKeysOf(groups[i].data) : i \in {j \in DOMAIN groups : groups[j].type = t}}

\* C27: getEstimateCounts returns the saved snapshot, without calculating and
\* without writing, exactly when forceRecalc is false and the snapshot is
\* less than 24 hours old; otherwise it calculates from the enumerator, the
\* remaining history being the history keys that are no bookmark keys, saves
\* the result with the time of the call and returns it.
C27_Step ==
    hist'.call = "getEstimateCounts" =>
        LET h == hist'
            age == h.now - h.prevResult.calculatedAt
        IN IF ~h.forceRecalc /\ age < Day
           THEN /\ ~h.calc
                /\ h.ret = h.prevResult
                /\ storage' = storage
           ELSE /\ h.calc
                /\ h.ret.remaining.h =
                      Cardinality(KeysOfType(h.groups, "h") \ KeysOfType(h.groups, "b"))
                /\ h.ret.remaining.b = Cardinality(KeysOfType(h.groups, "b"))
                /\ h.ret.remaining.o = Cardinality(KeysOfType(h.groups, "o"))
                /\ h.ret.completed.b = h.bookmarkDocs
                /\ h.ret.completed.h = IF h.pageDocs > h.bookmarkDocs
                                       THEN h.pageDocs - h.bookmarkDocs ELSE 0
                /\ StoredEstsKey \in DOMAIN storage'
                /\ storage'[StoredEstsKey].calculatedAt = h.now
                /\ storage'[StoredEstsKey].remaining = h.ret.remaining
                /\ storage'[StoredEstsKey].completed = h.ret.completed

C27_EstimateCache == [][C27_Step]_vars

C27_Witness ==
    /\ hist.call = "getEstimateCounts" /\ ~hist.forceRecalc /\ hist.calc
    /\ hist.now - hist.prevResult.calculatedAt = Day
    /\ hist.prevResult.remaining.h = 2 /\ hist.ret.remaining.h = 1


\* one start(), no stop() that found a call pending, concurrency 1 throughout
Sequential ==
    /\ Len(runs) = 1 /\ hist.epoch = "init"
    /\ \A l \in DOMAIN lims : lims[l].count = 1

\* C28: with concurrency 1 and no stop, the after-item callback is called for
\* the items in the order in which they were enqueued: the k-th call is for
\* the k-th item of the queue (chunk after chunk, each chunk in insertion
\* order), after the calls for the k-1 items before it and before any other.
C28_Step ==
    Sequential =>
        \A o \in DOMAIN ops :
            ops'[o].reports > ops[o].reports =>
                /\ ops[o].key = ItemKeys[o]
                /\ \A q \in DOMAIN ops : ops[q].reports = IF q < o THEN 1 ELSE 0

C28_NextInOrder == [][C28_Step]_vars

C28_Witness ==
    /\ Sequential /\ Len(ops) = 4 /\ Len(storageKeyStack) = 2
    /\ \A o \in DOMAIN ops : ops[o].reports = 1 /\ ops[o].key = ItemKeys[o]


\* C29: when the removeItem calls of two items of the same chunk have both
\* completed, however their storage reads and writes interleaved, neither
\* item is in the persisted chunk.
C29_RemovedStayRemoved ==
    \A o, q \in DOMAIN ops :
        (/\ o # q /\ ops[o].run = ops[q].run /\ ops[o].chunkKey = ops[q].chunkKey
         /\ ops[o].phase = "done" /\ ops[q].phase = "done") =>
            /\ ~InChunk(storage, ops[o].chunkKey, ops[o].key)
            /\ ~InChunk(storage, ops[q].chunkKey, ops[q].key)


\* start() has returned
Terminated == runs # <<>> /\ runs[1].phase = "done"

\* with no stop() and every processor call settling, start() returns
C30_Terminates == (runs # <<>>) ~> Terminated

\* C30: when a start() that was never stopped has returned, every main chunk
\* is empty and every item that was queued when it began has been reported
\* through the after-item callback.
C30_TerminatedClean ==
    Terminated =>
        /\ \A k \in Range(storageKeyStack) : Get(storage, k, <<>>) = <<>>
        /\ \A key \in hist.rest :
               \E o \in DOMAIN ops : ops[o].key = key /\ ops[o].reports >= 1


\* C31: at no instant two processItem calls that have not returned work on
\* the same item key, and no item is reported twice through the after-item
\* callback, whatever the sequence of start() and stop() invocations.
C31_NoDoubleProcessing ==
    \A o, q \in DOMAIN ops :
        (o # q /\ ops[o].key = ops[q].key) =>
            /\ ~(Unsettled(ops[o]) /\ Unsettled(ops[q]))
            /\ ~(ops[o].reports >= 1 /\ ops[q].reports >= 1)


\* C32: once cancelImport has completed in a session that was resumed (no
\* START populates the queue), with no processItem call made since the
\* CANCEL was received, every call made before settled, every start()
\* returned and no handler waiting, the main key stack is empty and storage
\* holds no main chunk record and no main stack record.
C32_NoChunkAfterCancel ==
    (/\ hist.cancelled /\ hist.cmds[Len(hist.cmds)] = "CANCEL"
     /\ "START" \notin Range(hist.cmds)
     /\ Len(ops) = hist.started
     /\ \A o \in DOMAIN ops : ~Unsettled(ops[o])
     /\ \A r \in DOMAIN runs : runs[r].phase \notin {"read", "map"}
     /\ handlers = <<>>) =>
        /\ storageKeyStack = <<>>
        /\ \A k \in DOMAIN storage : k = ERR_STATE_STORAGE_KEY


\* C33: when two state-manager calls have begun, both have pushed a chunk
\* key and no addItems or clearItems call is in progress, the persisted main
\* stack record lists the keys of the in-memory main key stack in the same
\* order, and a rehydrate recovers every chunk that was written.
C33_PersistedStackMatches ==
    (/\ \A i \in DOMAIN calls : calls[i].method \notin {"addItems", "clearItems"}
     /\ hist.begun = 2
     /\ Len(storageKeyStack) = 2) =>
        /\ PersistedStack = storageKeyStack
        /\ \A k \in DOMAIN storage :
               k \in Range(storageKeyStack) => k \in Range(rehydrateState(SM, TRUE).ks)

====
